---- MODULE Spec2Model ----
(***************************************************************************)
(* Model of microcloud/service/lxd.go: the LXDService methods Bootstrap,   *)
(* Join and IssueToken, run by concurrent callers against the LXD daemon   *)
(* of each node.  Every call of a method into the daemon, the trust setup, *)
(* the token codec or the local command is one step; the daemon, the       *)
(* cluster and the file system answer nondeterministically within their    *)
(* contracts.  Each invocation keeps the trace of the calls it made.  The  *)
(* cluster's trust store is read by no step of these methods and is not    *)
(* part of the state.                                                      *)
(***************************************************************************)
EXTENDS Integers, Sequences, FiniteSets, TLC

VARIABLES
    service,    \* node -> the LXDService value built by NewLXDService
    thread,     \* caller -> the invocation it runs (locals, position, trace)
    cluster,    \* node -> cluster config held by the node's daemon
    tokens,     \* join token texts issued by the cluster and still valid
    localInit,  \* node -> core.https_address applied by `lxd init --preseed`
    redeemed,   \* history: token texts with which some Join has succeeded
    codec       \* the token codec's input and output when run on its own

vars == <<service, thread, cluster, tokens, localInit, redeemed, codec>>

----------------------------------------------------------------------------
\* Bounds of the model

\* join tokens the cluster issues in one behaviour
MaxTokens == 1

\* the longest token text handed to the decoder, in fields
MaxLen == 5

\* the port every LXD service listens on (package constant LXDPort)
LXDPort == 8443

Nodes == {"node1", "node2"}
Threads == {"t1", "t2"}
Reasons == {"quorum unreachable", "disk full"}

Address(n) == IF n = "node1" THEN "10.0.0.5" ELSE "10.0.0.6"
Dir(n) == "/var/lib/" \o n

----------------------------------------------------------------------------
\* Errors: the message put in front by fmt.Errorf and the wrapped cause (%w)

Nil == [prefix |-> "", kind |-> "nil", reason |-> ""]

\* an error as a callee returns it: its kind and the text it carries
Cause(kind, reason) == [prefix |-> "", kind |-> kind, reason |-> reason]

\* fmt.Errorf(prefix + "%w", err): the cause is kept, the message prefixed
Wrap(prefix, err) == [err EXCEPT !.prefix = prefix]

\* fmt.Errorf(msg) without %w: a new error that is nothing but its message
Errorf(msg) == [prefix |-> msg, kind |-> "errorString", reason |-> ""]

----------------------------------------------------------------------------
\* Token codec: a token text is the serialised record of its fields

NoText == <<>>

NoMetadata == [serverName |-> "", clusterAddress |-> "", fingerprint |-> "",
               secret |-> ""]

Encode(t) == <<t.serverName, t.clusterAddress, t.fingerprint, t.secret>>

\* variant: only the number of fields is looked at
WellFormedLax(text) == Len(text) = 4

WellFormed(text) == /\ Len(text) = 4
                    /\ text[2] # ""
                    /\ text[3] # ""

Decode(text) == [serverName |-> text[1], clusterAddress |-> text[2],
                 fingerprint |-> text[3], secret |-> text[4]]

NoConfig == [ServerName |-> "", Enabled |-> FALSE, ClusterAddress |-> "",
             ClusterCertificate |-> ""]

\* s.configFromToken(token): the ClusterPut built from the decoded token
configFromToken(text) ==
    IF WellFormed(text)
    THEN [config |-> [ServerName |-> Decode(text).serverName, Enabled |-> TRUE,
                      ClusterAddress |-> Decode(text).clusterAddress,
                      ClusterCertificate |-> Decode(text).fingerprint],
          err |-> Nil]
    ELSE [config |-> NoConfig, err |-> Cause("MalformedToken", "")]

\* decode(tokenText): the join token, or MalformedToken
DecodeToken(text) ==
    IF WellFormed(text)
    THEN [token |-> Decode(text), err |-> Nil]
    ELSE [token |-> NoMetadata, err |-> Cause("MalformedToken", "")]

\* the codec at rest: nothing given, nothing produced
NoCodec == [given |-> "", stage |-> "", token |-> NoMetadata, text |-> NoText,
            out |-> NoMetadata, err |-> Nil]

ClusterAddress == "10.0.0.1:8443"
Fingerprint == "F"

\* the token the cluster makes for a peer: a fresh secret per token
NewToken(peer) == [serverName |-> peer, clusterAddress |-> ClusterAddress,
                   fingerprint |-> Fingerprint,
                   secret |-> ToString(Cardinality(tokens) + 1)]

MalformedText == <<"node2", "", Fingerprint, "0">>
ForgedText == <<"node2", ClusterAddress, Fingerprint, "forged">>

\* what a caller may hand to Join
JoinInputs == tokens \cup {MalformedText, ForgedText}

----------------------------------------------------------------------------
\* The daemon's cluster config, its entity tag and its operations

NoEtag == <<>>

\* the entity tag of a cluster config: a digest of its content
Etag(c) == <<c.server_name, c.enabled>>

NoOp == [class |-> "", state |-> "", reason |-> "", metadata |-> NoMetadata]

Terminal(op) == op.state \in {"Success", "Failed"}

\* util.CanonicalNetworkAddress(address, port): "address:port"
CanonicalNetworkAddress(address, port) == <<address, port>>

NoAddress == <<>>

Cert(n) == "cert-" \o n

NoTrustArgs == [serverCert |-> "", serverName |-> "", targetAddress |-> "",
                targetCert |-> "", targetPassword |-> NoText]

NoUpdateArgs == [cluster |-> NoConfig, ETag |-> NoEtag]

----------------------------------------------------------------------------
\* An invocation: the method's locals, where it stands, and what it called

\* what an accessor has returned: the one field it reads is set
NoValue == [type |-> "", name |-> "", address |-> "", port |-> 0]

Idle == [method |-> "", node |-> "", pc |-> "idle",
         token |-> NoText, peer |-> "",
         config |-> NoConfig, serverCert |-> "",
         currentCluster |-> [server_name |-> "", enabled |-> FALSE],
         etag |-> NoEtag, op |-> NoOp,
         err |-> Nil, ret |-> NoText,
         trace |-> <<>>,
         trustArgs |-> NoTrustArgs, updateArgs |-> NoUpdateArgs,
         opAtGet |-> "", replay |-> FALSE, got |-> NoValue]

\* number of calls of fn the invocation has made
RECURSIVE CountIn(_, _)
CountIn(tr, fn) ==
    IF tr = <<>> THEN 0
    ELSE (IF tr[1][1] = fn THEN 1 ELSE 0) + CountIn(Tail(tr), fn)

Calls(t, fn) == CountIn(thread[t].trace, fn)

\* whether the invocation has a call of fn that returned res
Returned(t, fn, res) ==
    \E i \in 1..Len(thread[t].trace) : thread[t].trace[i] = <<fn, res>>

\* position of the first call of fn in the trace, 0 when there is none
First(t, fn) ==
    IF Calls(t, fn) = 0 THEN 0
    ELSE CHOOSE i \in 1..Len(thread[t].trace) :
            /\ thread[t].trace[i][1] = fn
            /\ \A j \in 1..(i - 1) : thread[t].trace[j][1] # fn

\* the call whose failure ended the invocation ("" when none failed)
FailedStep(t) ==
    LET tr == thread[t].trace
    IN IF tr # <<>> /\ tr[Len(tr)][2] # "ok" THEN tr[Len(tr)][1] ELSE ""

Called(th, fn, res) == Append(th.trace, <<fn, res>>)

Init ==
    /\ service = [n \in Nodes |->
                    [dir |-> Dir(n), name |-> n, address |-> Address(n),
                     port |-> LXDPort]]
    /\ thread = [t \in Threads |-> Idle]
    /\ cluster = [n \in Nodes |-> [server_name |-> "", enabled |-> FALSE]]
    /\ tokens = {}
    /\ localInit = [n \in Nodes |-> NoAddress]
    /\ redeemed = {}
    /\ codec = NoCodec

----------------------------------------------------------------------------
\* The order of the calls each method makes

\* variant: the cluster state is fetched and tested before the local initialize
BootstrapStepsCheckFirst == <<"getCluster", "init", "update", "wait">>

\* variant: the wait follows the fetch, no update is requested
BootstrapStepsNoUpdate == <<"init", "getCluster", "wait">>

BootstrapSteps == <<"init", "getCluster", "update", "wait">>

\* variant: the membership update is requested before trust is set up
JoinStepsUpdateFirst == <<"decode", "loadCert", "update", "trust", "wait">>

JoinSteps == <<"decode", "loadCert", "trust", "update", "wait">>

\* variant: the token operation is awaited before it is converted
IssueTokenStepsAwait == <<"create", "wait", "get">>

IssueTokenSteps == <<"create", "get">>

Steps(method) ==
    CASE method = "Bootstrap" -> BootstrapSteps
      [] method = "Join" -> JoinSteps
      [] method = "IssueToken" -> IssueTokenSteps

Entry(method) == Steps(method)[1]

\* the step that follows pc once it has succeeded: the next one, or the return
After(method, pc) ==
    LET st == Steps(method)
        i == CHOOSE k \in 1..Len(st) : st[k] = pc
    IN IF i < Len(st) THEN st[i + 1] ELSE "done"

\* the message each method puts in front of the error of a failed call;
\* "" where the method returns the callee's error as it is
StagePrefix(method, fn) ==
    CASE method = "Bootstrap" /\ fn = "RunCommand" -> "Failed to initialize LXD: "
      [] method = "Bootstrap" /\ fn = "GetCluster" ->
            "Failed to retrieve current cluster config: "
      [] method = "Bootstrap" /\ fn = "UpdateCluster" ->
            "Failed to enable clustering on local LXD: "
      [] method = "Bootstrap" /\ fn = "Wait" -> "Failed to configure cluster :"
      [] method = "Join" /\ fn = "SetupTrust" ->
            "Failed to setup trust relationship with cluster: "
      [] method = "Join" /\ fn = "UpdateCluster" -> "Failed to join cluster: "
      [] method = "Join" /\ fn = "Wait" -> "Failed to join cluster: "
      [] method = "IssueToken" /\ fn = "Get" ->
            "Failed converting token operation to join token: "
      [] OTHER -> ""

\* the error the method returns when its call of fn failed with err
Returns(method, fn, err) ==
    IF StagePrefix(method, fn) = "" THEN err
    ELSE Wrap(StagePrefix(method, fn), err)

\* variant: the error is kept and the next step runs all the same
FailContinues(th, err) == [th EXCEPT !.pc = After(th.method, th.pc), !.err = err]

\* variant: local initialization is undone by a second run of the command
FailRollback(th, err) ==
    [th EXCEPT !.pc = "done", !.err = err,
               !.trace = IF th.method = "Bootstrap" /\ th.pc # "init"
                         THEN Called(th, "RunCommand", "ok") ELSE th.trace]

\* return err: the invocation ends with this error
Fail(th, err) == [th EXCEPT !.pc = "done", !.err = err]

\* the step succeeded: go on with the next one
Proceed(th, pc) == [th EXCEPT !.pc = After(th.method, pc)]

\* a method that has returned hands its result to its caller before any
\* other caller runs on
Scheduled(t) == \A u \in Threads \ {t} : thread[u].pc # "done"

At(t, method, pc) ==
    Scheduled(t) /\ thread[t].method = method /\ thread[t].pc = pc

----------------------------------------------------------------------------
\* Callers

CallBootstrap(t, n) ==
    /\ Scheduled(t)
    /\ thread[t].pc = "idle"
    /\ thread' = [thread EXCEPT ![t] =
                    [Idle EXCEPT !.method = "Bootstrap", !.node = n,
                                 !.pc = Entry("Bootstrap")]]
    /\ UNCHANGED <<codec, service, cluster, tokens, localInit, redeemed>>

CallJoin(t, n, token) ==
    /\ Scheduled(t)
    /\ thread[t].pc = "idle"
    /\ thread' = [thread EXCEPT ![t] =
                    [Idle EXCEPT !.method = "Join", !.node = n,
                                 !.pc = Entry("Join"), !.token = token,
                                 !.replay = (token \in redeemed)]]
    /\ UNCHANGED <<codec, service, cluster, tokens, localInit, redeemed>>

CallIssueToken(t, n, peer) ==
    /\ Scheduled(t)
    /\ thread[t].pc = "idle"
    /\ thread' = [thread EXCEPT ![t] =
                    [Idle EXCEPT !.method = "IssueToken", !.node = n,
                                 !.pc = Entry("IssueToken"), !.peer = peer]]
    /\ UNCHANGED <<codec, service, cluster, tokens, localInit, redeemed>>

\* the method has returned to its caller
Return(t) ==
    /\ thread[t].pc = "done"
    /\ thread' = [thread EXCEPT ![t] = Idle]
    /\ UNCHANGED <<codec, service, cluster, tokens, localInit, redeemed>>

----------------------------------------------------------------------------
\* Accessors of the service descriptor

\* return LXD
Type(s) == "LXD"

\* variant: Name returns the address
NameSwapped(s) == s.address

\* return s.name
Name(s) == s.name

\* return s.address
AddressOf(s) == s.address

\* return s.port
Port(s) == s.port

\* an accessor is called on the service of node n and returns value
Read(t, n, method, value) ==
    /\ Scheduled(t)
    /\ thread' = [thread EXCEPT ![t] =
                    [Idle EXCEPT !.method = method, !.node = n, !.pc = "done",
                                 !.got = value]]
    /\ UNCHANGED <<codec, service, cluster, tokens, localInit, redeemed>>

CallType(t, n) ==
    /\ thread[t].pc = "idle"
    /\ Read(t, n, "Type", [NoValue EXCEPT !.type = Type(service[n])])

CallName(t, n) ==
    /\ thread[t].pc = "idle"
    /\ Read(t, n, "Name", [NoValue EXCEPT !.name = Name(service[n])])

CallAddress(t, n) ==
    /\ thread[t].pc = "idle"
    /\ Read(t, n, "Address", [NoValue EXCEPT !.address = AddressOf(service[n])])

CallPort(t, n) ==
    /\ thread[t].pc = "idle"
    /\ Read(t, n, "Port", [NoValue EXCEPT !.port = Port(service[n])])

----------------------------------------------------------------------------
\* Bootstrap

\* lxd init --preseed with core.https_address = address:port; marshalling
\* the fixed preseed and writing it to the buffer (lines 59-68) cannot fail
BootstrapInit(t) ==
    LET th == thread[t]
        s == service[th.node]
        addr == CanonicalNetworkAddress(s.address, s.port)
    IN /\ At(t, "Bootstrap", "init")
       /\ \E res \in {"ok", "IOError"} :
            LET th1 == [th EXCEPT !.trace = Called(th, "RunCommand", res)]
            IN IF res = "ok"
               THEN /\ localInit' = [localInit EXCEPT ![th.node] = addr]
                    /\ thread' = [thread EXCEPT ![t] = Proceed(th1, "init")]
               ELSE /\ thread' = [thread EXCEPT ![t] =
                          Fail(th1, Returns("Bootstrap", "RunCommand", Cause(res, "")))]
                    /\ UNCHANGED localInit
       /\ UNCHANGED <<codec, service, cluster, tokens, redeemed>>

\* fmt.Errorf("This LXD server is already clustered")
ErrAlreadyClustered == Errorf("This LXD server is already clustered")

\* variant: the Enabled flag is not tested
AlreadyClusteredUnchecked(currentCluster) == FALSE

\* if currentCluster.Enabled
AlreadyClustered(currentCluster) == currentCluster.enabled

\* s.client.GetCluster() and the test of its Enabled flag
BootstrapGetCluster(t) ==
    LET th == thread[t]
    IN /\ At(t, "Bootstrap", "getCluster")
       /\ \E res \in {"ok", "NetworkError"} :
            LET th1 == [th EXCEPT !.trace = Called(th, "GetCluster", res)]
                th2 == [th1 EXCEPT !.currentCluster = cluster[th.node],
                                   !.etag = Etag(cluster[th.node])]
            IN thread' = [thread EXCEPT ![t] =
                 IF res # "ok"
                 THEN Fail(th1, Returns("Bootstrap", "GetCluster", Cause(res, "")))
                 ELSE IF AlreadyClustered(th2.currentCluster)
                 THEN Fail(th2, ErrAlreadyClustered)
                 ELSE Proceed(th2, "getCluster")]
       /\ UNCHANGED <<codec, service, cluster, tokens, localInit, redeemed>>

\* what the daemon answers to a cluster update carrying entity tag etag
UpdateClusterResults(n, etag) ==
    {"NetworkError"} \cup
    (IF etag # NoEtag /\ etag # Etag(cluster[n])
     THEN {"VersionMismatch"} ELSE {"ok"})

\* s.client.UpdateCluster(config, etag): on acceptance a pending operation
UpdateCluster(t, pc, config, etag) ==
    LET th == thread[t]
    IN /\ \E res \in UpdateClusterResults(th.node, etag) :
            LET th1 == [th EXCEPT !.trace = Called(th, "UpdateCluster", res),
                                  !.updateArgs = [cluster |-> config, ETag |-> etag]]
            IN thread' = [thread EXCEPT ![t] =
                 IF res = "ok"
                 THEN Proceed([th1 EXCEPT !.op = [NoOp EXCEPT !.class = "task",
                                                           !.state = "Pending"]], pc)
                 ELSE Fail(th1, Returns(th.method, "UpdateCluster", Cause(res, "")))]
       /\ UNCHANGED <<codec, service, cluster, tokens, localInit, redeemed>>

\* api.ClusterPut{Cluster: api.Cluster{ServerName: s.name, Enabled: true}}
BootstrapConfig(s) == [NoConfig EXCEPT !.ServerName = s.name, !.Enabled = TRUE]

\* variant: Bootstrap sends no entity tag
BootstrapEtagEmpty(th) == NoEtag

\* variant: the entity tag is the config's at the time of the update
BootstrapEtagCurrent(th) == Etag(cluster[th.node])

\* the entity tag Bootstrap sends: the one GetCluster returned
BootstrapEtag(th) == th.etag

BootstrapUpdate(t) ==
    /\ At(t, "Bootstrap", "update")
    /\ UpdateCluster(t, "update", BootstrapConfig(service[thread[t].node]),
                     BootstrapEtag(thread[t]))

----------------------------------------------------------------------------
\* Join

\* config, err := s.configFromToken(token)
JoinDecode(t) ==
    LET th == thread[t]
        r == configFromToken(th.token)
        res == IF r.err = Nil THEN "ok" ELSE r.err.kind
        th1 == [th EXCEPT !.trace = Called(th, "configFromToken", res)]
    IN /\ At(t, "Join", "decode")
       /\ thread' = [thread EXCEPT ![t] =
            IF r.err # Nil THEN Fail(th1, r.err)
            ELSE Proceed([th1 EXCEPT !.config = r.config], "decode")]
       /\ UNCHANGED <<codec, service, cluster, tokens, localInit, redeemed>>

\* serverCert, err := util.LoadServerCert(s.dir)
JoinLoadCert(t) ==
    LET th == thread[t]
    IN /\ At(t, "Join", "loadCert")
       /\ \E res \in {"ok", "NotFound"} :
            LET th1 == [th EXCEPT !.trace = Called(th, "LoadServerCert", res)]
            IN thread' = [thread EXCEPT ![t] =
                 IF res # "ok" THEN Fail(th1, Cause(res, ""))
                 ELSE Proceed([th1 EXCEPT !.serverCert = Cert(th.node)], "loadCert")]
       /\ UNCHANGED <<codec, service, cluster, tokens, localInit, redeemed>>

\* variant: the secret of the decoded token is presented as the password
SetupTrustArgsSecret(th) ==
    [serverCert |-> th.serverCert, serverName |-> th.config.ServerName,
     targetAddress |-> th.config.ClusterAddress,
     targetCert |-> th.config.ClusterCertificate,
     targetPassword |-> <<Decode(th.token).secret>>]

\* the arguments of SetupTrust(serverCert, config.ServerName,
\* config.ClusterAddress, config.ClusterCertificate, token)
SetupTrustArgs(th) ==
    [serverCert |-> th.serverCert, serverName |-> th.config.ServerName,
     targetAddress |-> th.config.ClusterAddress,
     targetCert |-> th.config.ClusterCertificate,
     targetPassword |-> th.token]

\* what the cluster answers to a trust request presenting password
SetupTrustResults(password) ==
    {"NetworkError"} \cup
    (IF password \in tokens THEN {"ok"} ELSE {"AuthRejected"})

\* SetupTrust: the cluster accepts or refuses the local certificate
JoinTrust(t) ==
    LET th == thread[t]
        args == SetupTrustArgs(th)
    IN /\ At(t, "Join", "trust")
       /\ \E res \in SetupTrustResults(args.targetPassword) :
            LET th1 == [th EXCEPT !.trace = Called(th, "SetupTrust", res),
                                  !.trustArgs = args]
            IN thread' = [thread EXCEPT ![t] =
                 IF res = "ok" THEN Proceed(th1, "trust")
                 ELSE Fail(th1, Returns("Join", "SetupTrust", Cause(res, "")))]
       /\ UNCHANGED <<codec, service, cluster, tokens, localInit, redeemed>>

\* the entity tag Join sends: "", no precondition
JoinEtag(th) == NoEtag

\* s.client.UpdateCluster(*config, "")
JoinUpdate(t) ==
    /\ At(t, "Join", "update")
    /\ UpdateCluster(t, "update", thread[t].config, JoinEtag(thread[t]))

----------------------------------------------------------------------------
\* Operations of the daemon and the wait for them

\* the daemon works on an operation: a cluster update that succeeds takes
\* effect on the node's cluster config, a token operation ends when the
\* token is used or withdrawn
OpProgress(t) ==
    LET th == thread[t]
        cfg == th.updateArgs.cluster
    IN /\ Scheduled(t)
       /\ th.pc \notin {"idle", "done"}
       /\ \/ /\ th.op.state = "Pending"
             /\ thread' = [thread EXCEPT ![t].op.state = "Running"]
             /\ UNCHANGED cluster
          \/ /\ th.op.state = "Running"
             /\ thread' = [thread EXCEPT ![t].op.state = "Success"]
             /\ cluster' = IF th.updateArgs # NoUpdateArgs
                           THEN [cluster EXCEPT ![th.node] =
                                   [server_name |-> cfg.ServerName,
                                    enabled |-> cfg.Enabled]]
                           ELSE cluster
          \/ /\ th.op.state = "Running"
             /\ \E r \in Reasons :
                  thread' = [thread EXCEPT ![t].op.state = "Failed",
                                           ![t].op.reason = r]
             /\ UNCHANGED cluster
       /\ UNCHANGED <<codec, service, tokens, localInit, redeemed>>

\* the error op.Wait() returns once the operation is over
OpErr(op) ==
    IF op.state = "Success" THEN Nil ELSE Cause("OperationFailed", op.reason)

\* variant: the error of op.Wait() is dropped
WaitErrSwallowed(method, err) == Nil

\* what the method returns for the error of op.Wait()
WaitErr(method, err) == Returns(method, "Wait", err)

\* err = op.Wait(): blocks until the operation is over
Wait(t) ==
    LET th == thread[t]
        err == OpErr(th.op)
        res == IF err = Nil THEN "ok" ELSE err.kind
        th1 == [th EXCEPT !.trace = Called(th, "Wait", res)]
    IN /\ Scheduled(t)
       /\ th.pc = "wait"
       /\ Terminal(th.op)
       /\ thread' = [thread EXCEPT ![t] =
            IF err # Nil THEN Fail(th1, WaitErr(th.method, err))
            ELSE Proceed(th1, "wait")]
       /\ redeemed' = IF th.method = "Join" /\ err = Nil
                         /\ After(th.method, "wait") = "done"
                      THEN redeemed \cup {th.token} ELSE redeemed
       /\ UNCHANGED <<codec, service, cluster, tokens, localInit>>

----------------------------------------------------------------------------
\* IssueToken

\* the server names of the cluster's members
Members == {cluster[n].server_name : n \in {k \in Nodes : cluster[k].enabled}}

\* what the daemon answers to a request for a join token for peer
CreateClusterMemberResults(n, peer) ==
    {"NetworkError"} \cup
    (IF ~cluster[n].enabled THEN {"NotClustered"}
     ELSE IF peer \in Members THEN {"Conflict"}
     ELSE IF Cardinality(tokens) < MaxTokens THEN {"ok", "okNoToken"}
     ELSE {})

\* variant: the cause is formatted into a new error (%v) and lost
CreateErrFlattened(err) == Errorf("Failed to create cluster member")

\* the error IssueToken returns when CreateClusterMember failed
CreateErr(err) == err

\* variant: the request leaves the server name out
CreateRequestUnnamed(th) == [ServerName |-> ""]

\* api.ClusterMembersPost{ServerName: peer}
CreateRequest(th) == [ServerName |-> th.peer]

\* op, err := s.client.CreateClusterMember(api.ClusterMembersPost{ServerName: peer})
IssueTokenCreate(t) ==
    LET th == thread[t]
        req == CreateRequest(th)
        tok == NewToken(req.ServerName)
    IN /\ At(t, "IssueToken", "create")
       /\ \E res \in CreateClusterMemberResults(th.node, req.ServerName) :
            LET th1 == [th EXCEPT !.trace = Called(th, "CreateClusterMember",
                                    IF res = "okNoToken" THEN "ok" ELSE res)]
            IN CASE res = "ok" ->
                    /\ tokens' = tokens \cup {Encode(tok)}
                    /\ thread' = [thread EXCEPT ![t] =
                         Proceed([th1 EXCEPT !.op = [NoOp EXCEPT !.class = "token",
                                     !.state = "Pending", !.metadata = tok]], "create")]
                 [] res = "okNoToken" ->
                    /\ thread' = [thread EXCEPT ![t] =
                         Proceed([th1 EXCEPT !.op = [NoOp EXCEPT !.class = "task",
                                     !.state = "Pending"]], "create")]
                    /\ UNCHANGED tokens
                 [] OTHER ->
                    /\ thread' = [thread EXCEPT ![t] =
                         Fail(th1, CreateErr(Cause(res, req.ServerName)))]
                    /\ UNCHANGED tokens
       /\ UNCHANGED <<codec, service, cluster, localInit, redeemed>>

\* opAPI.ToClusterJoinToken(): the join token in the operation's metadata
ToClusterJoinToken(opAPI) ==
    IF opAPI.class = "token" /\ opAPI.metadata # NoMetadata
    THEN [joinToken |-> opAPI.metadata, err |-> Nil]
    ELSE [joinToken |-> NoMetadata, err |-> Cause("NotJoinToken", "")]

\* opAPI := op.Get(); joinToken.String()
IssueTokenGet(t) ==
    LET th == thread[t]
        opAPI == th.op
        r == ToClusterJoinToken(opAPI)
        res == IF r.err = Nil THEN "ok" ELSE r.err.kind
        th1 == [th EXCEPT !.trace = Called(th, "Get", res),
                          !.opAtGet = opAPI.state]
    IN /\ At(t, "IssueToken", "get")
       /\ thread' = [thread EXCEPT ![t] =
            IF r.err # Nil
            THEN Fail(th1, Returns("IssueToken", "Get", r.err))
            ELSE [th1 EXCEPT !.pc = "done", !.ret = Encode(r.joinToken)]]
       /\ UNCHANGED <<codec, service, cluster, tokens, localInit, redeemed>>

----------------------------------------------------------------------------
\* The token codec on its own: a token or a text is given, encoded, decoded

\* join tokens, with and without their cluster address and fingerprint
TokenInputs ==
    [serverName : Nodes, clusterAddress : {"", ClusterAddress},
     fingerprint : {"", Fingerprint}, secret : {"", "1", "forged"}]

RECURSIVE TextsOfLen(_)
TextsOfLen(k) ==
    IF k = 0 THEN {<<>>}
    ELSE {Append(x, f) : x \in TextsOfLen(k - 1), f \in {"", Fingerprint}}

\* token texts of every length up to MaxLen
TextInputs == UNION {TextsOfLen(k) : k \in 0..MaxLen}

CodecInputs ==
    {[NoCodec EXCEPT !.given = "token", !.stage = "token", !.token = t] :
        t \in TokenInputs}
    \cup {[NoCodec EXCEPT !.given = "text", !.stage = "text", !.text = x] :
        x \in TextInputs}

CodecInit ==
    /\ service = [n \in Nodes |->
                    [dir |-> Dir(n), name |-> n, address |-> Address(n),
                     port |-> LXDPort]]
    /\ thread = [t \in Threads |-> Idle]
    /\ cluster = [n \in Nodes |-> [server_name |-> "", enabled |-> FALSE]]
    /\ tokens = {}
    /\ localInit = [n \in Nodes |-> NoAddress]
    /\ redeemed = {}
    /\ codec \in CodecInputs

\* joinToken.String()
CodecEncode ==
    /\ codec.stage = "token"
    /\ codec' = [codec EXCEPT !.stage = "text", !.text = Encode(codec.token)]
    /\ UNCHANGED <<service, thread, cluster, tokens, localInit, redeemed>>

\* decode(tokenText)
CodecDecode ==
    /\ codec.stage = "text"
    /\ codec' = [codec EXCEPT !.stage = "decoded",
                              !.out = DecodeToken(codec.text).token,
                              !.err = DecodeToken(codec.text).err]
    /\ UNCHANGED <<service, thread, cluster, tokens, localInit, redeemed>>

CodecNext == CodecEncode \/ CodecDecode

CodecSpec == CodecInit /\ [][CodecNext]_vars

----------------------------------------------------------------------------

Next ==
    \E t \in Threads :
        \/ \E n \in Nodes : CallBootstrap(t, n)
        \/ \E n \in Nodes, token \in JoinInputs : CallJoin(t, n, token)
        \/ \E n \in Nodes, peer \in Nodes : CallIssueToken(t, n, peer)
        \/ \E n \in Nodes : CallType(t, n)
        \/ \E n \in Nodes : CallName(t, n)
        \/ \E n \in Nodes : CallAddress(t, n)
        \/ \E n \in Nodes : CallPort(t, n)
        \/ BootstrapInit(t)
        \/ BootstrapGetCluster(t)
        \/ BootstrapUpdate(t)
        \/ JoinDecode(t)
        \/ JoinLoadCert(t)
        \/ JoinTrust(t)
        \/ JoinUpdate(t)
        \/ Wait(t)
        \/ IssueTokenCreate(t)
        \/ IssueTokenGet(t)
        \/ OpProgress(t)
        \/ Return(t)

Spec == Init /\ [][Next]_vars

\* what a started invocation does next: the call it stands at returns, or
\* the operation it holds moves on
Advance(t) ==
    \/ BootstrapInit(t)
    \/ BootstrapGetCluster(t)
    \/ BootstrapUpdate(t)
    \/ JoinDecode(t)
    \/ JoinLoadCert(t)
    \/ JoinTrust(t)
    \/ JoinUpdate(t)
    \/ Wait(t)
    \/ IssueTokenCreate(t)
    \/ IssueTokenGet(t)
    \/ OpProgress(t)

\* every call returns and every operation reaches a terminal state. Each
\* caller runs on its own thread; a step is held back only while another
\* caller hands over its result, which happens again and again but always
\* ends, hence strong fairness of the steps and weak fairness of the return.
Fairness ==
    \A t \in Threads : SF_vars(Advance(t)) /\ WF_vars(Return(t))

LiveSpec == Spec /\ Fairness

----------------------------------------------------------------------------
\* Properties

Done(t) == thread[t].pc = "done"

Running(t, method) == thread[t].method = method

\* the call of fn that returned "ok" comes before every call of gn
Before(t, fn, gn) ==
    /\ Returned(t, fn, "ok")
    /\ First(t, fn) < First(t, gn)

\* C1: Join calls updateMembership (UpdateCluster) only after establishTrust
\* (SetupTrust) has returned success in the same call; when decoding the
\* token, loading the local certificate or SetupTrust fails, Join returns an
\* error and has made no UpdateCluster call.
C1_TrustBeforeMembership ==
    \A t \in Threads : Running(t, "Join") =>
        /\ Calls(t, "UpdateCluster") > 0 => Before(t, "SetupTrust", "UpdateCluster")
        /\ FailedStep(t) \in {"configFromToken", "LoadServerCert", "SetupTrust"} =>
              /\ Done(t)
              /\ thread[t].err # Nil
              /\ Calls(t, "UpdateCluster") = 0
              /\ thread[t].op = NoOp

C1_Witness ==
    \E t \in Threads :
        /\ Running(t, "Join") /\ Done(t)
        /\ FailedStep(t) = "SetupTrust"
        /\ Calls(t, "UpdateCluster") = 0
        /\ thread[t].token \in tokens

\* C2: a Bootstrap whose fetched cluster state reports enabled fails with
\* the already-clustered error, which no other failure returns, and makes
\* no UpdateCluster call: the fetch is the last call it makes.
C2_AlreadyClusteredFails ==
    \A t \in Threads :
        /\ (Running(t, "Bootstrap") /\ Returned(t, "GetCluster", "ok")
              /\ thread[t].currentCluster.enabled) =>
              /\ Done(t)
              /\ thread[t].err = ErrAlreadyClustered
              /\ Calls(t, "UpdateCluster") = 0
              /\ thread[t].trace[Len(thread[t].trace)][1] = "GetCluster"
        /\ (Done(t) /\ thread[t].err = ErrAlreadyClustered) =>
              /\ Running(t, "Bootstrap")
              /\ thread[t].currentCluster.enabled
              /\ FailedStep(t) = ""

C2_Witness ==
    \E t \in Threads :
        /\ Running(t, "Bootstrap") /\ Done(t)
        /\ thread[t].currentCluster.enabled
        /\ thread[t].err = ErrAlreadyClustered
        /\ cluster[thread[t].node].enabled

\* C3 (as claimed): Bootstrap fetches the cluster state and tests enabled
\* before it invokes local initialize, so a Bootstrap on an already clustered
\* node never invokes local initialize.
C3_CheckBeforeInit ==
    \A t \in Threads : Running(t, "Bootstrap") =>
        /\ Calls(t, "RunCommand") > 0 => Before(t, "GetCluster", "RunCommand")
        /\ thread[t].currentCluster.enabled => Calls(t, "RunCommand") = 0

\* C3 (amended): Bootstrap fetches the cluster state and tests enabled only
\* after local initialize has succeeded and before any UpdateCluster call: a
\* Bootstrap on an already clustered node has invoked local initialize once
\* and never requests the membership update.
C3_InitBeforeCheck ==
    \A t \in Threads : Running(t, "Bootstrap") =>
        /\ Calls(t, "GetCluster") > 0 => Before(t, "RunCommand", "GetCluster")
        /\ Calls(t, "UpdateCluster") > 0 =>
              /\ Before(t, "GetCluster", "UpdateCluster")
              /\ ~thread[t].currentCluster.enabled
        /\ thread[t].currentCluster.enabled =>
              /\ Calls(t, "RunCommand") = 1
              /\ Calls(t, "UpdateCluster") = 0

C3_Witness ==
    \E t \in Threads :
        /\ Running(t, "Bootstrap") /\ Done(t)
        /\ thread[t].currentCluster.enabled
        /\ Returned(t, "RunCommand", "ok")
        /\ localInit[thread[t].node] # NoAddress

\* C4: Bootstrap and Join return success only when the wait on their
\* membership operation returned success; when the operation ended Failed
\* with reason r, the call returns the wait's error with r unchanged behind
\* the message of its stage, and does not report success.
C4_SuccessOnlyAfterAwait ==
    \A t \in Threads : (Done(t) /\ thread[t].method \in {"Bootstrap", "Join"}) =>
        /\ thread[t].err = Nil =>
              /\ Returned(t, "Wait", "ok")
              /\ thread[t].op.state = "Success"
              /\ cluster[thread[t].node].enabled
        /\ thread[t].op.state = "Failed" =>
              /\ thread[t].err # Nil
              /\ thread[t].err.kind = "OperationFailed"
              /\ thread[t].err.reason = thread[t].op.reason
              /\ thread[t].err.prefix = StagePrefix(thread[t].method, "Wait")
              /\ FailedStep(t) = "Wait"

C4_Witness ==
    \E t \in Threads :
        /\ Running(t, "Bootstrap") /\ Done(t)
        /\ thread[t].op.state = "Failed"
        /\ thread[t].op.reason = "quorum unreachable"
        /\ thread[t].err.reason = "quorum unreachable"
        /\ ~cluster[thread[t].node].enabled

\* C5 (as claimed): a join token is single-use: a Join called with a token
\* with which an earlier Join has succeeded fails, on any node.
C5_TokenSingleUse ==
    \A t \in Threads :
        (Running(t, "Join") /\ Done(t) /\ thread[t].replay) => thread[t].err # Nil

\* C6 (as claimed): every Join whose token decodes calls SetupTrust exactly
\* once, presenting the decoded cluster address, the decoded fingerprint and
\* the secret of the decoded token.
C6_TrustPresentsSecret ==
    \A t \in Threads :
        (Running(t, "Join") /\ Done(t) /\ Returned(t, "configFromToken", "ok")) =>
            /\ Calls(t, "SetupTrust") = 1
            /\ thread[t].trustArgs.targetAddress = Decode(thread[t].token).clusterAddress
            /\ thread[t].trustArgs.targetCert = Decode(thread[t].token).fingerprint
            /\ thread[t].trustArgs.targetPassword = <<Decode(thread[t].token).secret>>

\* C6 (amended): a Join calls SetupTrust at most once, and exactly once when
\* its token decodes and its local certificate loads; the call presents the
\* local certificate, the decoded server name, the decoded cluster address,
\* the decoded cluster certificate and, as the credential, the token text as
\* it was given to Join.
C6_TrustPresentsToken ==
    \A t \in Threads : Running(t, "Join") =>
        /\ Calls(t, "SetupTrust") <= 1
        /\ (Returned(t, "LoadServerCert", "ok") /\ thread[t].pc # "trust") =>
              Calls(t, "SetupTrust") = 1
        /\ ~Returned(t, "LoadServerCert", "ok") => Calls(t, "SetupTrust") = 0
        /\ Calls(t, "SetupTrust") = 1 =>
              /\ Returned(t, "configFromToken", "ok")
              /\ thread[t].trustArgs =
                    [serverCert |-> Cert(thread[t].node),
                     serverName |-> Decode(thread[t].token).serverName,
                     targetAddress |-> Decode(thread[t].token).clusterAddress,
                     targetCert |-> Decode(thread[t].token).fingerprint,
                     targetPassword |-> thread[t].token]

C6_Witness ==
    \E t \in Threads :
        /\ Running(t, "Join") /\ Done(t) /\ thread[t].err = Nil
        /\ Calls(t, "SetupTrust") = 1
        /\ thread[t].trustArgs.targetPassword = thread[t].token
        /\ thread[t].trustArgs.targetPassword # <<Decode(thread[t].token).secret>>

\* C7: every UpdateCluster call of Bootstrap carries {ServerName = the
\* node's name, Enabled = true} and the entity tag that the GetCluster call
\* of the same invocation returned; every UpdateCluster call of Join carries
\* the config built from the decoded token and the empty entity tag.
C7_UpdateArguments ==
    \A t \in Threads : Calls(t, "UpdateCluster") > 0 =>
        /\ Calls(t, "UpdateCluster") = 1
        /\ Running(t, "Bootstrap") =>
              /\ thread[t].updateArgs.cluster =
                    [ServerName |-> service[thread[t].node].name, Enabled |-> TRUE,
                     ClusterAddress |-> "", ClusterCertificate |-> ""]
              /\ Before(t, "GetCluster", "UpdateCluster")
              /\ thread[t].updateArgs.ETag = Etag(thread[t].currentCluster)
              /\ thread[t].updateArgs.ETag # NoEtag
        /\ Running(t, "Join") =>
              /\ thread[t].updateArgs.cluster =
                    [ServerName |-> Decode(thread[t].token).serverName,
                     Enabled |-> TRUE,
                     ClusterAddress |-> Decode(thread[t].token).clusterAddress,
                     ClusterCertificate |-> Decode(thread[t].token).fingerprint]
              /\ thread[t].updateArgs.ETag = NoEtag

C7_Witness ==
    \E t, u \in Threads :
        /\ Running(t, "Bootstrap") /\ Calls(t, "UpdateCluster") = 1
        /\ thread[t].updateArgs.ETag = <<"", FALSE>>
        /\ Running(u, "Join") /\ Calls(u, "UpdateCluster") = 1
        /\ thread[u].updateArgs.ETag = NoEtag

\* C8 (as claimed): IssueToken converts the operation into a token only
\* after it has awaited it: every token it returns was taken from an
\* operation that had reached Success.
C8_TokenAfterAwait ==
    \A t \in Threads :
        (Running(t, "IssueToken") /\ Done(t) /\ thread[t].ret # NoText) =>
            /\ Before(t, "Wait", "Get")
            /\ thread[t].opAtGet = "Success"

\* C8 (amended): IssueToken never awaits the operation: it converts the
\* operation as CreateClusterMember returned it, in whatever state it is
\* (Pending and Running included), and every token it returns is the text
\* of that operation's metadata, taken after CreateClusterMember succeeded.
C8_TokenWithoutAwait ==
    \A t \in Threads : Running(t, "IssueToken") =>
        /\ Calls(t, "Wait") = 0
        /\ Calls(t, "Get") > 0 => Before(t, "CreateClusterMember", "Get")
        /\ thread[t].ret # NoText =>
              /\ Done(t) /\ thread[t].err = Nil
              /\ Returned(t, "Get", "ok")
              /\ thread[t].ret = Encode(thread[t].op.metadata)

C8_Witness ==
    \E t \in Threads :
        /\ Running(t, "IssueToken") /\ Done(t)
        /\ thread[t].ret # NoText
        /\ thread[t].opAtGet = "Pending"
        /\ Calls(t, "Wait") = 0

Methods == {"Bootstrap", "Join", "IssueToken"}

\* the calls that go to the daemon or to the cluster
RemoteCalls == {"GetCluster", "UpdateCluster", "Wait", "SetupTrust",
                "CreateClusterMember"}

\* C9 (as claimed): every failure of a remote call that Bootstrap, Join or
\* IssueToken returns is wrapped with the message of its stage, and no
\* other remote call is wrapped with the same message, so the returned
\* error alone tells the step that failed.
C9_FailuresAttributable ==
    \A t \in Threads : (Done(t) /\ FailedStep(t) \in RemoteCalls) =>
        /\ thread[t].err.prefix # ""
        /\ \A m \in Methods, fn \in RemoteCalls \ {FailedStep(t)} :
              StagePrefix(m, fn) # thread[t].err.prefix

\* C10: when CreateClusterMember returns Conflict, IssueToken returns no
\* token and an error that is the Conflict, not a NetworkError, and makes no
\* further call.
C10_ConflictSurfaced ==
    \A t \in Threads :
        (Running(t, "IssueToken") /\ Returned(t, "CreateClusterMember", "Conflict")) =>
            /\ Done(t)
            /\ thread[t].ret = NoText
            /\ thread[t].err.kind = "Conflict"
            /\ thread[t].err.reason = thread[t].peer
            /\ Calls(t, "Get") = 0

C10_Witness ==
    \E t \in Threads :
        /\ Running(t, "IssueToken") /\ Done(t)
        /\ FailedStep(t) = "CreateClusterMember"
        /\ thread[t].err.kind = "Conflict"
        /\ thread[t].peer \in Members

Accessors == {"Type", "Name", "Address", "Port"}

\* the service value NewLXDService built for node n
Constructed(n) == [dir |-> Dir(n), name |-> n, address |-> Address(n),
                   port |-> LXDPort]

\* C11: in every reachable state, whatever Bootstrap, Join and IssueToken
\* calls came before, Type, Name, Address and Port return LXD and the name,
\* address and port given at construction, without error; and a call of an
\* accessor changes nothing but the caller's own result.
C11_AccessorsPure ==
    /\ [](/\ \A n \in Nodes : service[n] = Constructed(n)
          /\ \A t \in Threads : thread[t].method \in Accessors =>
                /\ Done(t) /\ thread[t].err = Nil /\ thread[t].trace = <<>>
                /\ thread[t].method = "Type" =>
                      thread[t].got = [NoValue EXCEPT !.type = "LXD"]
                /\ thread[t].method = "Name" =>
                      thread[t].got = [NoValue EXCEPT !.name = thread[t].node]
                /\ thread[t].method = "Address" =>
                      thread[t].got =
                         [NoValue EXCEPT !.address = Address(thread[t].node)]
                /\ thread[t].method = "Port" =>
                      thread[t].got = [NoValue EXCEPT !.port = LXDPort])
    /\ [][\A t \in Threads :
             (thread[t].pc = "idle" /\ thread'[t].method \in Accessors) =>
                 /\ UNCHANGED <<codec, service, cluster, tokens, localInit, redeemed>>
                 /\ \A u \in Threads \ {t} : thread'[u] = thread[u]]_vars

C11_Witness ==
    \E t, u \in Threads :
        /\ thread[t].method = "Name" /\ Done(t)
        /\ thread[t].got.name = "node2"
        /\ cluster["node2"].enabled /\ cluster["node2"].server_name = "node2"
        /\ redeemed # {}
        /\ thread[u].method = "Join" /\ thread[u].pc = "wait"

\* C12: for every peer p, when IssueToken(p) succeeds, the token text it
\* returns decodes to a join token whose serverName is exactly p.
C12_TokenNamesPeer ==
    \A t \in Threads :
        (Running(t, "IssueToken") /\ Done(t) /\ thread[t].err = Nil) =>
            /\ thread[t].ret # NoText
            /\ WellFormed(thread[t].ret)
            /\ Decode(thread[t].ret).serverName = thread[t].peer

C12_Witness ==
    \E t \in Threads :
        /\ Running(t, "IssueToken") /\ Done(t) /\ thread[t].err = Nil
        /\ thread[t].peer = "node2" /\ thread[t].node = "node1"
        /\ Decode(thread[t].ret).serverName = "node2"

\* a valid join token names its cluster address and its fingerprint
ValidToken(t) == t.clusterAddress # "" /\ t.fingerprint # ""

\* the text lacks its cluster address or its fingerprint
MissingField(text) == Len(text) = 4 /\ (text[2] = "" \/ text[3] = "")

C13_WitnessMissing ==
    /\ codec.stage = "decoded"
    /\ MissingField(codec.text)
    /\ codec.text[3] = ""
    /\ codec.err # Nil

\* the calls a method makes, in the order of its steps
CallOrder(method) ==
    CASE method = "Bootstrap" ->
            <<"RunCommand", "GetCluster", "UpdateCluster", "Wait">>
      [] method = "Join" ->
            <<"configFromToken", "LoadServerCert", "SetupTrust",
              "UpdateCluster", "Wait">>
      [] OTHER -> <<>>

\* the calls made so far are the first ones of the method's order
InOrder(t) ==
    LET tr == thread[t].trace
        order == CallOrder(thread[t].method)
    IN /\ Len(tr) <= Len(order)
       /\ \A i \in 1..Len(tr) : tr[i][1] = order[i]

\* C14: Bootstrap and Join are fail-stop sequences: the calls of an
\* invocation are made in the one fixed order; every call but the last made
\* has succeeded, so nothing is invoked after a failure; a failed call ends
\* the invocation with a non-nil error; and an invocation returns nil only
\* when every call of the sequence was made and succeeded.
C14_FailStop ==
    \A t \in Threads : thread[t].method \in {"Bootstrap", "Join"} =>
        LET tr == thread[t].trace
        IN /\ InOrder(t)
           /\ \A i \in 1..(Len(tr) - 1) : tr[i][2] = "ok"
           /\ FailedStep(t) # "" => (Done(t) /\ thread[t].err # Nil)
           /\ (Done(t) /\ thread[t].err = Nil) =>
                 /\ Len(tr) = Len(CallOrder(thread[t].method))
                 /\ \A i \in 1..Len(tr) : tr[i][2] = "ok"
           /\ ~Done(t) => thread[t].err = Nil

C14_Witness ==
    \E t, u \in Threads :
        /\ Running(t, "Join") /\ Done(t)
        /\ FailedStep(t) = "SetupTrust"
        /\ Len(thread[t].trace) = 3
        /\ thread[t].err # Nil
        /\ Running(u, "Bootstrap") /\ FailedStep(u) = "" /\ thread[u].pc = "wait"

Interleaved(t, u) ==
    /\ t # u
    /\ Running(t, "Bootstrap") /\ Running(u, "Bootstrap")
    /\ thread[t].node = thread[u].node

Answer(th) == th.trace[Len(th.trace)][2]

C16_WitnessMismatch ==
    \E t, u \in Threads :
        /\ Interleaved(t, u)
        /\ Returned(t, "UpdateCluster", "VersionMismatch") /\ Done(t)
        /\ thread[u].op.state = "Success"

\* the invocation of t has started and not yet returned
InFlight(t) ==
    /\ thread[t].method \in {"Bootstrap", "Join"}
    /\ thread[t].pc \notin {"idle", "done"}

\* C17: when every call returns and every operation reaches Success or
\* Failed, every invocation of Bootstrap and of Join eventually returns,
\* with nil or with an error; none stays in flight forever.
C17_EventuallyReturns ==
    \A t \in Threads :
        InFlight(t) ~> (Done(t) /\ thread[t].method \in {"Bootstrap", "Join"})

C17_Witness ==
    \E t, u \in Threads :
        /\ Running(t, "Join") /\ Done(t)
        /\ Returned(t, "Wait", "OperationFailed")
        /\ thread[t].op.state = "Failed"
        /\ Running(u, "Bootstrap") /\ thread[u].pc = "wait"
        /\ thread[u].op.state = "Running"

====
